---- MODULE Spec2Model ----
(***************************************************************************)
(* Model of the two SQLite record stores of the repository:               *)
(*   SensorDB (src/Mechatronics.py)      table sensor_data                *)
(*   OrderDB  (src/customerDatabase.py)  table orders                     *)
(* Each script is a program of its own with its own database file; a      *)
(* behaviour runs one of them.  Text is a sequence of one-character       *)
(* strings, so that str.strip() is computed and not assumed.  REAL        *)
(* columns hold tenths (15 stands for 1.5).                                *)
(***************************************************************************)
EXTENDS Integers, Sequences, FiniteSets, TLC

\* Number of successful INSERTs in one behaviour.
MaxAdds == 2

\* Ids a caller may pass: every id that can have been assigned, and one more.
Ids == 1..(MaxAdds + 1)

-----------------------------------------------------------------------------
(* Python values *)

\* An optional argument: absent (None, or omitted at the call), or given.
None == <<>>
Some(x) == <<x>>

Whitespace == {" ", "\t", "\n"}

RECURSIVE lstrip(_)
lstrip(s) ==
    IF s # <<>> /\ Head(s) \in Whitespace THEN lstrip(Tail(s)) ELSE s

RECURSIVE rstrip(_)
rstrip(s) ==
    IF s # <<>> /\ s[Len(s)] \in Whitespace
    THEN rstrip(SubSeq(s, 1, Len(s) - 1))
    ELSE s

\* str.strip(): leading and trailing whitespace removed.
strip(s) == rstrip(lstrip(s))

\* str(int) for an integer, as csv.writer renders it.
Digit(d) == <<"0", "1", "2", "3", "4", "5", "6", "7", "8", "9">>[d + 1]

RECURSIVE NatToStr(_)
NatToStr(n) ==
    IF n < 10 THEN <<Digit(n)>> ELSE NatToStr(n \div 10) \o <<Digit(n % 10)>>

IntToStr(n) == IF n < 0 THEN <<"-">> \o NatToStr(-n) ELSE NatToStr(n)

\* str(float) of a value with one fractional digit, held in tenths.
FloatToStr(t) ==
    LET a == IF t < 0 THEN -t ELSE t
    IN  (IF t < 0 THEN <<"-">> ELSE <<>>)
            \o NatToStr(a \div 10) \o <<".">> \o <<Digit(a % 10)>>

-----------------------------------------------------------------------------
(* Text literals of the source *)

Normal == <<"N", "o", "r", "m", "a", "l">>
pending == <<"p", "e", "n", "d", "i", "n", "g">>

\* What datetime.now().strftime("%Y-%m-%d %H:%M:%S") can return.
Clock == {<<"2", "6", "-", "1", "1", " ", "0", "7", ":", "0", "0">>}
\* What date.today().isoformat() can return.
Today == {<<"2", "6", "-", "1", "1">>}

-----------------------------------------------------------------------------
(* SQLite *)

MaxOf(S) == CHOOSE m \in S : \A x \in S : x <= m

MaxRowid(table) == IF table = {} THEN 0 ELSE MaxOf({r.id : r \in table})

\* A plain INTEGER PRIMARY KEY: one more than the largest rowid in the table.
RowidWithoutAutoincrement(table, seq) == MaxRowid(table) + 1

\* INTEGER PRIMARY KEY AUTOINCREMENT: one more than the largest rowid the
\* table has ever held (sqlite_sequence), never a rowid of a deleted row.
NextRowid(table, seq) ==
    (IF seq > MaxRowid(table) THEN seq ELSE MaxRowid(table)) + 1

\* SELECT * FROM t WHERE id = ?  followed by fetchone(): the row or None.
SelectWhereId(table, id) ==
    IF \E r \in table : r.id = id
    THEN Some(CHOOSE r \in table : r.id = id)
    ELSE None

RECURSIVE OrderByIdDesc(_)
OrderByIdDesc(table) ==
    IF table = {} THEN <<>>
    ELSE LET m == CHOOSE r \in table : \A q \in table : q.id <= r.id
         IN  <<m>> \o OrderByIdDesc(table \ {m})

\* SELECT * FROM t ORDER BY id  followed by fetchall().
RECURSIVE OrderById(_)
OrderById(table) ==
    IF table = {} THEN <<>>
    ELSE LET m == CHOOSE r \in table : \A q \in table : r.id <= q.id
         IN  <<m>> \o OrderById(table \ {m})

\* DELETE without its WHERE clause.
DeleteAll(table, id) == {}

\* DELETE FROM t WHERE id = ?
DeleteWhereId(table, id) == {r \in table : r.id # id}

\* cursor.rowcount of an UPDATE or DELETE with WHERE id = ?
Rowcount(table, id) == Cardinality({r \in table : r.id = id})

-----------------------------------------------------------------------------
VARIABLES
    program,          \* which script runs: its database file is the state
    sensor_data,      \* rows of table sensor_data
    orders,           \* rows of table orders
    sqlite_sequence,  \* AUTOINCREMENT's record of the largest rowid assigned
    csv_file,         \* csv_path -> None, or Some(the rows written)
    returned,         \* the ids the add calls have returned, in call order
    op,               \* the last call: its name, arguments and outcome
    students,         \* MAN.py: the list students
    students_csv      \* MAN.py: students.csv, None until the script writes it

vars == <<program, sensor_data, orders, sqlite_sequence, csv_file, returned, op,
          students, students_csv>>

Paths == {"export.csv"}

\* The outcome of a call.  outcome is "id", "True", "False", "row", "None",
\* "ok" (a call that returns nothing), or the name of the exception raised.
Call(name, id, args, outcome, retId, retRow) ==
    [name |-> name, id |-> id, args |-> args, outcome |-> outcome,
     retId |-> retId, retRow |-> retRow]

Init ==
    /\ program \in {"Mechatronics", "customerDatabase"}
    /\ sensor_data = {}
    /\ orders = {}
    /\ sqlite_sequence = 0
    /\ csv_file = [p \in Paths |-> None]
    /\ returned = <<>>
    /\ op = Call("__init__", 0, None, "ok", 0, None)
    /\ students = <<>>
    /\ students_csv = None

-----------------------------------------------------------------------------
(* SensorDB, src/Mechatronics.py *)

SensorColumns == <<"id", "sensor_name", "value", "unit", "timestamp", "status">>

SensorArgs(sensor_name, value, unit, timestamp, status) ==
    [sensor_name |-> sensor_name, value |-> value, unit |-> unit,
     timestamp |-> timestamp, status |-> status]

\* Arguments the callers pass: padded text, text that is empty after
\* trimming, a padded timestamp, no timestamp, no status.
SensorFull ==
    { SensorArgs(<<"b">>, 0, <<" ", "v">>, Some(<<" ", "t", " ">>), Some(<<"w", " ">>)),
      SensorArgs(<<" ">>, -5, <<>>, Some(<<"t">>), Some(<<"\t">>)) }

SensorAddArgs ==
    SensorFull \cup { SensorArgs(<<" ", "a", " ">>, 15, <<"u">>, None, None) }

SensorUpdateArgs == SensorFull

SensorRow(id, sensor_name, value, unit, timestamp, status) ==
    [id |-> id, sensor_name |-> sensor_name, value |-> value, unit |-> unit,
     timestamp |-> timestamp, status |-> status]

\* The status parameter's default value.
add_reading_status == Normal

add_reading(a, now) ==
    LET timestamp == IF a.timestamp = None THEN now ELSE a.timestamp[1]
        status == IF a.status = None THEN add_reading_status ELSE a.status[1]
        lastrowid == NextRowid(sensor_data, sqlite_sequence)
    IN  /\ program = "Mechatronics"
        /\ Len(returned) < MaxAdds
        /\ sensor_data' = sensor_data \cup
               { SensorRow(lastrowid, strip(a.sensor_name), a.value,
                           strip(a.unit), timestamp, strip(status)) }
        /\ sqlite_sequence' = lastrowid
        /\ returned' = Append(returned, lastrowid)
        /\ op' = Call("add_reading", 0, Some(a), "id", lastrowid, None)
        /\ UNCHANGED <<students, students_csv, program, orders, csv_file>>

get_all_readings == OrderById(sensor_data)

get_reading(reading_id) ==
    LET row == SelectWhereId(sensor_data, reading_id)
    IN  /\ program = "Mechatronics"
        /\ op' = Call("get_reading", reading_id, None,
                      IF row = None THEN "None" ELSE "row", 0, row)
        /\ UNCHANGED <<students, students_csv, program, sensor_data, orders, sqlite_sequence,
                       csv_file, returned>>

\* The SET clause of update_reading keeping the row's timestamp.
update_reading_keeps_timestamp(r, a) ==
    SensorRow(r.id, strip(a.sensor_name), a.value, strip(a.unit),
              r.timestamp, strip(a.status[1]))

\* The SET clause of update_reading: the row that replaces row r.
update_reading_set(r, a) ==
    SensorRow(r.id, strip(a.sensor_name), a.value, strip(a.unit),
              strip(a.timestamp[1]), strip(a.status[1]))

update_reading(reading_id, a) ==
    /\ program = "Mechatronics"
    /\ sensor_data' = { IF r.id = reading_id THEN update_reading_set(r, a) ELSE r
                        : r \in sensor_data }
    /\ op' = Call("update_reading", reading_id, Some(a),
                  IF Rowcount(sensor_data, reading_id) > 0 THEN "True" ELSE "False",
                  0, None)
    /\ UNCHANGED <<students, students_csv, program, orders, sqlite_sequence, csv_file, returned>>

delete_reading(reading_id) ==
    /\ program = "Mechatronics"
    /\ sensor_data' = DeleteWhereId(sensor_data, reading_id)
    /\ op' = Call("delete_reading", reading_id, None,
                  IF Rowcount(sensor_data, reading_id) > 0 THEN "True" ELSE "False",
                  0, None)
    /\ UNCHANGED <<students, students_csv, program, orders, sqlite_sequence, csv_file, returned>>

\* open(csv_path, "w") placed before the test of rows: the file is truncated.
OpenBeforeCheck(header, lines, old) ==
    IF lines = <<>> THEN Some(<<>>) ELSE Some(<<header>> \o lines)

\* The file at csv_path after export_to_csv: untouched when there are no
\* rows (the ValueError is raised before open), else the header and the lines.
ExportedFile(header, lines, old) ==
    IF lines = <<>> THEN old ELSE Some(<<header>> \o lines)

SensorCsvHeader == <<"id", "sensor_name", "value", "unit", "timestamp", "status">>

SensorCsvRow(r) ==
    <<IntToStr(r.id), r.sensor_name, FloatToStr(r.value), r.unit, r.timestamp,
      r.status>>

SensorDB_export_to_csv(csv_path) ==
    LET rows == get_all_readings
        lines == [i \in 1..Len(rows) |-> SensorCsvRow(rows[i])]
    IN  /\ program = "Mechatronics"
        /\ csv_file' = [csv_file EXCEPT
               ![csv_path] = ExportedFile(SensorCsvHeader, lines, @)]
        /\ op' = Call("export_to_csv", 0, Some([csv_path |-> csv_path]),
                      IF rows = <<>> THEN "ValueError" ELSE "ok", 0, None)
        /\ UNCHANGED <<students, students_csv, program, sensor_data, orders, sqlite_sequence, returned>>

-----------------------------------------------------------------------------
(* OrderDB, src/customerDatabase.py *)

OrderColumns ==
    <<"id", "customer_name", "product", "quantity", "unit_price", "order_date",
      "status">>

OrderArgs(customer_name, product, quantity, unit_price, order_date, status) ==
    [customer_name |-> customer_name, product |-> product, quantity |-> quantity,
     unit_price |-> unit_price, order_date |-> order_date, status |-> status]

\* Arguments that satisfy the CHECK constraints: padded text, text that is
\* empty after trimming, a padded order_date.
OrderFull ==
    { OrderArgs(<<"b">>, <<" ", "q", " ">>, 2, 0, Some(<<" ", "d", " ">>), Some(<<" ", "s">>)),
      OrderArgs(<<" ">>, <<>>, 1, 0, Some(<<"d">>), Some(<<"\n">>)) }

\* Arguments that break a CHECK constraint: quantity 0, quantity -1,
\* unit_price -0.5.
OrderBad ==
    { OrderArgs(<<"a">>, <<"p">>, 0, 15, Some(<<"d">>), Some(<<"s">>)),
      OrderArgs(<<"a">>, <<"p">>, -1, 0, Some(<<"d">>), Some(<<"s">>)),
      OrderArgs(<<"a">>, <<"p">>, 1, -5, Some(<<"d">>), Some(<<"s">>)) }

OrderAddArgs ==
    OrderFull \cup OrderBad
        \cup { OrderArgs(<<" ", "a", " ">>, <<"p">>, 1, 15, None, None) }

OrderUpdateArgs == OrderFull \cup OrderBad

OrderRow(id, customer_name, product, quantity, unit_price, order_date, status) ==
    [id |-> id, customer_name |-> customer_name, product |-> product,
     quantity |-> quantity, unit_price |-> unit_price, order_date |-> order_date,
     status |-> status]

\* CHECK(quantity >= 0): the boundary value let through.
orders_CHECK_off_by_one(r) == r.quantity >= 0 /\ r.unit_price >= 0

\* CHECK(quantity > 0) and CHECK(unit_price >= 0) of table orders.
orders_CHECK(r) == r.quantity > 0 /\ r.unit_price >= 0

add_order_status_shipped == <<"s", "h", "i", "p", "p", "e", "d">>

\* The status parameter's default value.
add_order_status == pending

add_order(a, today) ==
    LET order_date == IF a.order_date = None THEN today ELSE a.order_date[1]
        status == IF a.status = None THEN add_order_status ELSE a.status[1]
        lastrowid == NextRowid(orders, sqlite_sequence)
        row == OrderRow(lastrowid, strip(a.customer_name), strip(a.product),
                        a.quantity, a.unit_price, order_date, strip(status))
    IN  /\ program = "customerDatabase"
        /\ IF orders_CHECK(row)
           THEN /\ Len(returned) < MaxAdds
                /\ orders' = orders \cup {row}
                /\ sqlite_sequence' = lastrowid
                /\ returned' = Append(returned, lastrowid)
                /\ op' = Call("add_order", 0, Some(a), "id", lastrowid, None)
           ELSE \* sqlite3.IntegrityError; "with self.conn" rolls back
                /\ op' = Call("add_order", 0, Some(a), "IntegrityError", 0, None)
                /\ UNCHANGED <<orders, sqlite_sequence, returned>>
        /\ UNCHANGED <<students, students_csv, program, sensor_data, csv_file>>

get_all_orders == OrderById(orders)

get_order(order_id) ==
    LET row == SelectWhereId(orders, order_id)
    IN  /\ program = "customerDatabase"
        /\ op' = Call("get_order", order_id, None,
                      IF row = None THEN "None" ELSE "row", 0, row)
        /\ UNCHANGED <<students, students_csv, program, sensor_data, orders, sqlite_sequence,
                       csv_file, returned>>

\* The SET clause of update_order: the row that replaces row r.
update_order_set(r, a) ==
    OrderRow(r.id, strip(a.customer_name), strip(a.product), a.quantity,
             a.unit_price, strip(a.order_date[1]), strip(a.status[1]))

update_order(order_id, a) ==
    LET updated == { IF r.id = order_id THEN update_order_set(r, a) ELSE r
                     : r \in orders }
    IN  /\ program = "customerDatabase"
        /\ IF \A r \in updated : orders_CHECK(r)
           THEN /\ orders' = updated
                /\ op' = Call("update_order", order_id, Some(a),
                              IF Rowcount(orders, order_id) > 0
                              THEN "True" ELSE "False", 0, None)
           ELSE \* sqlite3.IntegrityError; "with self.conn" rolls back
                /\ op' = Call("update_order", order_id, Some(a),
                              "IntegrityError", 0, None)
                /\ UNCHANGED orders
        /\ UNCHANGED <<students, students_csv, program, sensor_data, sqlite_sequence, csv_file, returned>>

delete_order(order_id) ==
    /\ program = "customerDatabase"
    /\ orders' = DeleteWhereId(orders, order_id)
    /\ op' = Call("delete_order", order_id, None,
                  IF Rowcount(orders, order_id) > 0 THEN "True" ELSE "False",
                  0, None)
    /\ UNCHANGED <<students, students_csv, program, sensor_data, sqlite_sequence, csv_file, returned>>

OrderCsvHeader ==
    <<"id", "customer_name", "product", "quantity", "unit_price", "order_date",
      "status">>

OrderCsvRow(r) ==
    <<IntToStr(r.id), r.customer_name, r.product, IntToStr(r.quantity),
      FloatToStr(r.unit_price), r.order_date, r.status>>

OrderDB_export_to_csv(csv_path) ==
    LET rows == get_all_orders
        lines == [i \in 1..Len(rows) |-> OrderCsvRow(rows[i])]
    IN  /\ program = "customerDatabase"
        /\ csv_file' = [csv_file EXCEPT
               ![csv_path] = ExportedFile(OrderCsvHeader, lines, @)]
        /\ op' = Call("export_to_csv", 0, Some([csv_path |-> csv_path]),
                      IF rows = <<>> THEN "ValueError" ELSE "ok", 0, None)
        /\ UNCHANGED <<students, students_csv, program, sensor_data, orders, sqlite_sequence, returned>>

-----------------------------------------------------------------------------
Next ==
    \/ \E a \in SensorAddArgs, now \in Clock : add_reading(a, now)
    \/ \E id \in Ids : get_reading(id)
    \/ \E id \in Ids, a \in SensorUpdateArgs : update_reading(id, a)
    \/ \E id \in Ids : delete_reading(id)
    \/ \E p \in Paths : SensorDB_export_to_csv(p)
    \/ \E a \in OrderAddArgs, today \in Today : add_order(a, today)
    \/ \E id \in Ids : get_order(id)
    \/ \E id \in Ids, a \in OrderUpdateArgs : update_order(id, a)
    \/ \E id \in Ids : delete_order(id)
    \/ \E p \in Paths : OrderDB_export_to_csv(p)

Spec == Init /\ [][Next]_vars

-----------------------------------------------------------------------------
(* Vocabulary of the properties *)

\* The table of the program that runs.
Table == IF program = "Mechatronics" THEN sensor_data ELSE orders

AddNames == {"add_reading", "add_order"}
GetNames == {"get_reading", "get_order"}
UpdateNames == {"update_reading", "update_order"}
DeleteNames == {"delete_reading", "delete_order"}

HasId(table, id) == \E r \in table : r.id = id

\* No whitespace at either end.
NoEdgeWhitespace(s) ==
    s = <<>> \/ (s[1] \notin Whitespace /\ s[Len(s)] \notin Whitespace)

\* v is s without a run of whitespace at its start and one at its end, and
\* has none left at either end.
IsTrimOf(v, s) ==
    /\ NoEdgeWhitespace(v)
    /\ \E a, b \in 0..Len(s) :
          /\ a + b <= Len(s)
          /\ v = SubSeq(s, a + 1, Len(s) - b)
          /\ \A i \in 1..a : s[i] \in Whitespace
          /\ \A i \in (Len(s) - b + 1)..Len(s) : s[i] \in Whitespace

\* Only whitespace, or nothing at all.
EmptyAfterTrim(s) == \A i \in 1..Len(s) : s[i] \in Whitespace

\* The text arguments of a call, but for the date (timestamp, order_date).
TextArgs(a) ==
    IF program = "Mechatronics"
    THEN {a.sensor_name, a.unit} \cup {a.status[i] : i \in 1..Len(a.status)}
    ELSE {a.customer_name, a.product} \cup {a.status[i] : i \in 1..Len(a.status)}

\* The text fields of a stored row.
TextFields(r) ==
    IF program = "Mechatronics"
    THEN {r.sensor_name, r.unit, r.timestamp, r.status}
    ELSE {r.customer_name, r.product, r.order_date, r.status}

\* The text fields of a stored row that must not be empty.
RequiredText(r) ==
    IF program = "Mechatronics"
    THEN {r.sensor_name, r.unit, r.status}
    ELSE {r.customer_name, r.product, r.status}

BadNumbers(a) == a.quantity <= 0 \/ a.unit_price < 0

\* The constraints of the data model on the arguments of add and update:
\* text that is not empty after trimming, quantity > 0, unit_price >= 0.
ConstraintsPass(a) ==
    /\ \A t \in TextArgs(a) : ~EmptyAfterTrim(t)
    /\ program = "customerDatabase" => ~BadNumbers(a)

\* Reading a cell of the exported file back: int(cell), float(cell) in tenths.
DigitValue(c) == CHOOSE d \in 0..9 : Digit(d) = c

RECURSIVE StrToNat(_)
StrToNat(s) ==
    IF s = <<>> THEN 0
    ELSE StrToNat(SubSeq(s, 1, Len(s) - 1)) * 10 + DigitValue(s[Len(s)])

StrToInt(s) == IF Head(s) = "-" THEN -StrToNat(Tail(s)) ELSE StrToNat(s)

StrToFloat(s) ==
    LET b == IF Head(s) = "-" THEN Tail(s) ELSE s
        t == StrToNat(SubSeq(b, 1, Len(b) - 2)) * 10 + DigitValue(b[Len(b)])
    IN  IF Head(s) = "-" THEN -t ELSE t

\* A line of the exported file as a record of the table.
ParsedLine(c) ==
    IF program = "Mechatronics"
    THEN [id |-> StrToInt(c[1]), sensor_name |-> c[2], value |-> StrToFloat(c[3]),
          unit |-> c[4], timestamp |-> c[5], status |-> c[6]]
    ELSE [id |-> StrToInt(c[1]), customer_name |-> c[2], product |-> c[3],
          quantity |-> StrToInt(c[4]), unit_price |-> StrToFloat(c[5]),
          order_date |-> c[6], status |-> c[7]]

\* The columns of the table, in the order CREATE TABLE declares them.
Columns == IF program = "Mechatronics" THEN SensorColumns ELSE OrderColumns

get_all == IF program = "Mechatronics" THEN get_all_readings ELSE get_all_orders

-----------------------------------------------------------------------------
(* C1 *)

\* C1: each id an add returns is strictly greater than every id an add
\* returned before it on that table, whatever updates and deletes came in
\* between: the ids returned, in call order, are strictly increasing.
C1_MonotonicIds ==
    \A i, j \in 1..Len(returned) : i < j => returned[i] < returned[j]

\* An add on a table that a delete had emptied: it returned 2 after 1.
C1_Witness ==
    /\ op.name \in AddNames
    /\ op.outcome = "id"
    /\ returned = <<1, 2>>
    /\ {r.id : r \in Table} = {2}

-----------------------------------------------------------------------------
(* C2 *)

\* C2 as stated: add_order and update_order with quantity <= 0 or
\* unit_price < 0 always end in the constraint error, and leave table orders
\* as it was.
C2_AlwaysConstraintError ==
    [][ (op'.name \in {"add_order", "update_order"} /\ BadNumbers(op'.args[1]))
            => (op'.outcome = "IntegrityError" /\ orders' = orders) ]_vars

\* C2, amended: with quantity <= 0 or unit_price < 0, add_order raises the
\* constraint error, and so does update_order when the id is in the table;
\* update_order with an id that is not in the table returns False.  In every
\* case the call does not succeed and table orders is as it was.
C2_BadNumbersRejected ==
    [][ (op'.name \in {"add_order", "update_order"} /\ BadNumbers(op'.args[1]))
            => /\ orders' = orders
               /\ op'.outcome =
                     IF op'.name = "add_order" \/ HasId(orders, op'.id)
                     THEN "IntegrityError" ELSE "False" ]_vars

\* update_order with quantity 0 on a stored order was refused.
C2_Witness ==
    /\ op.name = "update_order"
    /\ op.args[1].quantity = 0
    /\ HasId(orders, op.id)
    /\ op.outcome = "IntegrityError"

-----------------------------------------------------------------------------
(* C3 *)

\* C3: add and update with a text field that is empty after trimming end in
\* an error and leave the table as it was, and no stored record has an empty
\* sensor_name, unit, status, customer_name or product.
C3_EmptyTextRejected ==
    [][ /\ (op'.name \in AddNames \cup UpdateNames
                /\ \E t \in TextArgs(op'.args[1]) : EmptyAfterTrim(t))
            => (op'.outcome \notin {"id", "True"} /\ Table' = Table)
        /\ \A r \in Table' : \A t \in RequiredText(r) : t # <<>> ]_vars

-----------------------------------------------------------------------------
(* C4 *)

\* C4: no text field of a stored record starts or ends with whitespace.
C4_StoredTextTrimmed ==
    \A r \in Table : \A t \in TextFields(r) : NoEdgeWhitespace(t)

-----------------------------------------------------------------------------
(* C5 *)

\* C5: delete(id) of a stored id returns True, removes that record and no
\* other; delete(id) of an id that is not stored returns False and changes
\* nothing; right after a successful delete(id), delete(id) returns False and
\* get(id) returns None.  No delete raises.
C5_DeleteTwice ==
    [][ /\ op'.name \in DeleteNames =>
            IF HasId(Table, op'.id)
            THEN /\ op'.outcome = "True"
                 /\ Table' = Table \ {r \in Table : r.id = op'.id}
                 /\ Cardinality(Table') = Cardinality(Table) - 1
            ELSE /\ op'.outcome = "False"
                 /\ Table' = Table
        /\ (op.name \in DeleteNames /\ op.outcome = "True" /\ op'.id = op.id) =>
            /\ op'.name \in DeleteNames => (op'.outcome = "False" /\ Table' = Table)
            /\ op'.name \in GetNames => (op'.outcome = "None" /\ op'.retRow = None)
      ]_vars

\* A delete that returned False for an id an add had returned, while another
\* record is still stored: the id had been deleted before.
C5_Witness ==
    /\ op.name \in DeleteNames
    /\ op.outcome = "False"
    /\ \E i \in 1..Len(returned) : returned[i] = op.id
    /\ Table # {}

-----------------------------------------------------------------------------
(* C6 *)

\* C6: an update that returns True leaves its record with the same id and
\* with every other field equal to the value supplied (text trimmed, the
\* timestamp or order_date included), whatever the record held before, and
\* leaves every other record as it was.
C6_UpdateReplacesAll ==
    [][ (op'.name \in UpdateNames /\ op'.outcome = "True") =>
            \E old \in Table : \E new \in Table' :
                LET a == op'.args[1]
                IN  /\ old.id = op'.id
                    /\ new.id = op'.id
                    /\ Table' = (Table \ {old}) \cup {new}
                    /\ Cardinality(Table') = Cardinality(Table)
                    /\ IsTrimOf(new.status, a.status[1])
                    /\ IF program = "Mechatronics"
                       THEN /\ IsTrimOf(new.sensor_name, a.sensor_name)
                            /\ new.value = a.value
                            /\ IsTrimOf(new.unit, a.unit)
                            /\ IsTrimOf(new.timestamp, a.timestamp[1])
                       ELSE /\ IsTrimOf(new.customer_name, a.customer_name)
                            /\ IsTrimOf(new.product, a.product)
                            /\ new.quantity = a.quantity
                            /\ new.unit_price = a.unit_price
                            /\ IsTrimOf(new.order_date, a.order_date[1])
      ]_vars

\* An update with a padded timestamp returned True on a table of two
\* records: the record holds the trimmed timestamp, the other record the
\* timestamp its add was given.
C6_Witness ==
    /\ op.name = "update_reading"
    /\ op.outcome = "True"
    /\ op.args[1].timestamp = Some(<<" ", "t", " ">>)
    /\ \E r \in sensor_data : r.id = op.id /\ r.timestamp = <<"t">>
    /\ \E r \in sensor_data : r.id # op.id /\ r.timestamp \in Clock

-----------------------------------------------------------------------------
(* C7 *)

\* C7: update with an id that is not in the table returns False and leaves
\* the table as it was; update returns True exactly when a record with that
\* id exists and the constraints pass.
C7_UpdateTrueIffStoredAndValid ==
    [][ op'.name \in UpdateNames =>
            /\ ~HasId(Table, op'.id) => (op'.outcome = "False" /\ Table' = Table)
            /\ op'.outcome = "True"
                  <=> (HasId(Table, op'.id) /\ ConstraintsPass(op'.args[1]))
      ]_vars

-----------------------------------------------------------------------------
(* C8 *)

\* C8: export_to_csv on a table with no record raises the empty-export
\* error and leaves the destination as it was: not created if it did not
\* exist, and with the content of the earlier export if it did.
C8_EmptyExportRejected ==
    [][ (op'.name = "export_to_csv" /\ Table = {}) =>
            (op'.outcome = "ValueError" /\ csv_file' = csv_file) ]_vars

\* The export of an emptied table was refused, and the file written by the
\* earlier export is still there, with its two lines.
C8_Witness ==
    /\ op.name = "export_to_csv"
    /\ op.outcome = "ValueError"
    /\ Table = {}
    /\ csv_file[op.args[1].csv_path] # None
    /\ Len(csv_file[op.args[1].csv_path][1]) = 2

-----------------------------------------------------------------------------
(* C9 *)

\* C9: export_to_csv on a table that holds records writes the column names
\* of the table, in declaration order, and then one line per record, in
\* ascending id order, none missing and none twice; read back, the lines are
\* the records get_all returns, in order and value.  The table is unchanged.
C9_ExportIsGetAll ==
    [][ (op'.name = "export_to_csv" /\ Table # {}) =>
            /\ op'.outcome = "ok"
            /\ Table' = Table
            /\ csv_file'[op'.args[1].csv_path] # None
            /\ LET f == csv_file'[op'.args[1].csv_path][1]
                   n == Len(f) - 1
               IN  /\ f[1] = Columns
                   /\ n = Cardinality(Table)
                   /\ {ParsedLine(f[i + 1]) : i \in 1..n} = Table
                   /\ \A i, j \in 1..n :
                         i < j => StrToInt(f[i + 1][1]) < StrToInt(f[j + 1][1])
                   /\ [i \in 1..n |-> ParsedLine(f[i + 1])] = get_all
      ]_vars

\* An export of two records, one of them with a negative value.
C9_Witness ==
    /\ op.name = "export_to_csv"
    /\ op.outcome = "ok"
    /\ Cardinality(Table) = 2
    /\ Len(csv_file[op.args[1].csv_path][1]) = 3
    /\ \E r \in sensor_data : r.value < 0

-----------------------------------------------------------------------------
(* C10 *)

\* C10 as stated: add_order without a status stores status "pending";
\* add_reading without a status stores no record.
C10_SensorStatusRequired ==
    /\ (op.name = "add_order" /\ op.args[1].status = None /\ op.outcome = "id")
        => \E r \in orders : r.id = op.retId /\ r.status = pending
    /\ (op.name = "add_reading" /\ op.args[1].status = None)
        => ~HasId(sensor_data, op.retId)

\* C10, amended: the status is defaulted to a fixed literal in both stores:
\* add_order without a status stores status "pending", and add_reading
\* without a status stores status "Normal".
C10_StatusDefaults ==
    /\ (op.name = "add_order" /\ op.args[1].status = None /\ op.outcome = "id")
        => \E r \in orders : r.id = op.retId /\ r.status = pending
    /\ (op.name = "add_reading" /\ op.args[1].status = None)
        => \E r \in sensor_data : r.id = op.retId /\ r.status = Normal

\* add_reading without a status stored a record.
C10_Witness ==
    /\ op.name = "add_reading"
    /\ op.args[1].status = None
    /\ HasId(sensor_data, op.retId)

-----------------------------------------------------------------------------
(* The menu flows of src/Mechatronics.py *)

\* str.lower(), on the letters the answers use.
lower(s) ==
    [i \in 1..Len(s) |->
        CASE s[i] = "Y" -> "y" [] s[i] = "E" -> "e" [] s[i] = "S" -> "s"
          [] s[i] = "N" -> "n" [] s[i] = "O" -> "o" [] OTHER -> s[i]]

IsDigit(c) == \E d \in 0..9 : Digit(d) = c

\* Whether float(s) returns: an optional sign, digits, at most one point.
IsFloat(s) ==
    LET b == IF s # <<>> /\ Head(s) = "-" THEN Tail(s) ELSE s
    IN  /\ \E i \in 1..Len(b) : IsDigit(b[i])
        /\ \A i \in 1..Len(b) : IsDigit(b[i]) \/ b[i] = "."
        /\ Cardinality({i \in 1..Len(b) : b[i] = "."}) <= 1

\* float(s), in tenths, of a literal with at most one fractional digit.
float(s) ==
    LET b == IF Head(s) = "-" THEN Tail(s) ELSE s
        dot == {i \in 1..Len(b) : b[i] = "."}
        t == IF dot = {} THEN StrToNat(b) * 10
             ELSE LET i == CHOOSE i \in dot : TRUE
                  IN  StrToNat(SubSeq(b, 1, i - 1)) * 10
                        + (IF i < Len(b) THEN DigitValue(b[i + 1]) ELSE 0)
    IN  IF Head(s) = "-" THEN -t ELSE t

\* input_nonempty over the lines typed: the first that is not empty once
\* stripped, stripped.
RECURSIVE input_nonempty(_)
input_nonempty(lines) ==
    IF strip(Head(lines)) # <<>> THEN strip(Head(lines))
    ELSE input_nonempty(Tail(lines))

\* input_float over the lines typed: the first that float() accepts.
RECURSIVE input_float(_)
input_float(lines) ==
    IF IsFloat(strip(Head(lines))) THEN float(strip(Head(lines)))
    ELSE input_float(Tail(lines))

\* confirm: the answer is y or yes, in any case.
confirm(line) == lower(strip(line)) \in {<<"y">>, <<"y", "e", "s">>}

\* Python's "x or y" on text and on a float: y when x is empty, or is 0.
TextOr(x, y) == IF x # <<>> THEN x ELSE y
FloatOr(x, y) == IF x # 0 THEN x ELSE y

\* What the user types at the prompts; the last line of each is accepted.
NameLines == { << <<" ", "a", " ">> >>, << <<" ">>, <<"b">> >> }
ValueLines ==
    { << <<"0">> >>, << <<"x">>, <<"1", ".", "5">> >>,
      << <<" ", "-", "0", ".", "5">> >> }
UnitLines == { << <<"u">> >> }
StatusLines == { <<Normal>>, << <<>>, <<"w", " ">> >> }
AnswerLines == { <<"Y">>, <<"n">> }

Typed(sensor_name, value, unit, status) ==
    [sensor_name |-> sensor_name, value |-> value, unit |-> unit,
     status |-> status]

add_reading_flow(typed, now) ==
    add_reading(SensorArgs(input_nonempty(typed.sensor_name),
                           input_float(typed.value),
                           input_nonempty(typed.unit), None,
                           Some(input_nonempty(typed.status))), now)

\* The arguments update_reading_flow passes to update_reading.
update_reading_flow_args(row, typed, now) ==
    SensorArgs(TextOr(input_nonempty(typed.sensor_name), row.sensor_name),
               FloatOr(input_float(typed.value), row.value),
               TextOr(input_nonempty(typed.unit), row.unit),
               Some(now),
               Some(TextOr(input_nonempty(typed.status), row.status)))

\* op.args of the flow is <<what was typed, what update_reading was passed>>.
update_reading_flow(rid, typed, now) ==
    LET row == SelectWhereId(sensor_data, rid)
    IN  /\ program = "Mechatronics"
        /\ IF row = None
           THEN /\ op' = Call("update_reading_flow", rid, None, "not found",
                              0, None)
                /\ UNCHANGED sensor_data
           ELSE LET a == update_reading_flow_args(row[1], typed, now)
                IN  /\ sensor_data' =
                          { IF r.id = rid THEN update_reading_set(r, a) ELSE r
                            : r \in sensor_data }
                    /\ op' = Call("update_reading_flow", rid, <<typed, a>>,
                                  IF Rowcount(sensor_data, rid) > 0
                                  THEN "updated" ELSE "failed", 0, row)
        /\ UNCHANGED <<students, students_csv, program, orders,
                       sqlite_sequence, csv_file, returned>>

delete_reading_flow(rid, answer) ==
    IF SelectWhereId(sensor_data, rid) # None /\ confirm(answer)
    THEN delete_reading(rid)
    ELSE /\ program = "Mechatronics"
         /\ op' = Call("delete_reading_flow", rid, None, "not deleted", 0,
                       SelectWhereId(sensor_data, rid))
         /\ UNCHANGED <<students, students_csv, program, sensor_data, orders,
                        sqlite_sequence, csv_file, returned>>

TypedLines ==
    { Typed(n, v, u, s) :
        n \in NameLines, v \in ValueLines, u \in UnitLines, s \in StatusLines }

menu ==
    \/ \E typed \in TypedLines, now \in Clock : add_reading_flow(typed, now)
    \/ \E rid \in Ids, typed \in TypedLines, now \in Clock :
          update_reading_flow(rid, typed, now)
    \/ \E rid \in Ids, answer \in AnswerLines : delete_reading_flow(rid, answer)

\* menu() opens the database of the sensor logger.
InitMenu ==
    /\ Init
    /\ program = "Mechatronics"

SpecMenu == InitMenu /\ [][menu]_vars

-----------------------------------------------------------------------------
(* C11 *)

\* C11: when update_reading_flow updates a reading, the value it passes to
\* update_reading, and the value the record then holds, is the number typed
\* at the prompt, 0 included: never the record's previous value.
C11_EnteredValueStored ==
    (op.name = "update_reading_flow" /\ op.outcome = "updated") =>
        /\ op.args[2].value = input_float(op.args[1].value)
        /\ \E r \in sensor_data :
              r.id = op.id /\ r.value = input_float(op.args[1].value)

-----------------------------------------------------------------------------
(* The student-admission logger, src/MAN.py.  Scores are held in tenths. *)

\* Number of students entered in one behaviour.
MaxStudents == 2

\* What the user types at the prompts.
StudentNames == { <<"x">> }
AgeLines == { <<"1", "9">>, <<"2", "0">> }
ScoreLines ==
    { <<"0">>, <<"5", "9", ".", "9">>, <<"6", "0">>, <<"8", "9", ".", "9">>,
      <<"9", "0">>, <<"9", "0", ".", "1">>, <<"1", "0", "0">> }
ContinueLines == { <<"y", "e", "s">>, <<"Y", "E", "S">>, <<"n", "o">> }

\* The performance evaluation of the loop body.
performance(score_entered) ==
    IF score_entered > 900 THEN "EXCELLENT"
    ELSE IF 600 <= score_entered /\ score_entered <= 899 THEN "PASS"
    ELSE "FAIL"

\* The enrollment eligibility of the loop body.
eligible(score_entered) == score_entered >= 600

student_data(name, age_entering, score_entered) ==
    [name |-> name, age |-> age_entering, score |-> score_entered,
     performance |-> performance(score_entered),
     eligible |-> eligible(score_entered)]

fieldnames == <<"name", "age", "score", "performance", "eligible">>

\* The row csv.DictWriter writes for a student.
StudentCsvRow(s) ==
    <<s.name, IntToStr(s.age), FloatToStr(s.score), s.performance,
      IF s.eligible THEN "True" ELSE "False">>

\* One pass of the while loop; when the answer is not "yes" the loop ends
\* and the script writes students.csv.
student_entry(name, age_line, score_line, continue_line) ==
    LET entered == Append(students,
                          student_data(name, StrToInt(strip(age_line)),
                                       float(strip(score_line))))
    IN  /\ program = "MAN"
        /\ students_csv = None
        /\ Len(students) < MaxStudents
        /\ students' = entered
        /\ students_csv' =
              IF lower(continue_line) # <<"y", "e", "s">>
              THEN Some(<<fieldnames>>
                          \o [i \in 1..Len(entered) |-> StudentCsvRow(entered[i])])
              ELSE None
        /\ UNCHANGED <<program, sensor_data, orders, sqlite_sequence, csv_file,
                       returned, op>>

InitMAN ==
    /\ program = "MAN"
    /\ sensor_data = {}
    /\ orders = {}
    /\ sqlite_sequence = 0
    /\ csv_file = [p \in Paths |-> None]
    /\ returned = <<>>
    /\ op = Call("__init__", 0, None, "ok", 0, None)
    /\ students = <<>>
    /\ students_csv = None

MAN ==
    \E name \in StudentNames, age_line \in AgeLines, score_line \in ScoreLines,
       continue_line \in ContinueLines :
        student_entry(name, age_line, score_line, continue_line)

SpecMAN == InitMAN /\ [][MAN]_vars

-----------------------------------------------------------------------------
(* C12 *)

\* C12: every recorded student is eligible (score >= 60) exactly when the
\* recorded performance is PASS or EXCELLENT: no record has performance FAIL
\* with eligible = True.
C12_EligibleIffPassed ==
    \A i \in 1..Len(students) :
        /\ students[i].eligible <=> students[i].score >= 600
        /\ students[i].eligible
              <=> students[i].performance \in {"PASS", "EXCELLENT"}

====
